---- MODULE Spec2Model ----
(***************************************************************************)
(* react-renderless: the StateProvider base class (src/src/StateProvider.js)*)
(* and the withRender higher-order component (src/src/withRender.js).       *)
(*                                                                         *)
(* Spec    : the life of one StateProvider instance (mount, prop updates,   *)
(*           re-renders, handler calls, unmount).                           *)
(* SpecHOC : calls of withRender, of the factories it returns and of the    *)
(*           Combined components it returns.                                *)
(***************************************************************************)
EXTENDS Integers, Sequences, FiniteSets, TLC

VARIABLES
    mounted,    \* TRUE while the instance exists
    self,       \* the instance: type, props, context, state, _handlers, getterCalls
    out,        \* what the last render() did: the calls it made and its result
    renders,    \* number of render() calls of this instance
    lastOp,     \* the operation that made the last step
    mount,      \* the state and handlers as the constructor left them
    factory,    \* the last factory returned by withRender
    made,       \* the Container the factory was made for, and its uses so far
    Combined,   \* the last component returned by withRender
    element,    \* the element the last call of Combined returned
    lastCall    \* the last call of withRender: its arguments and its result

spVars  == <<mounted, self, out, renders, lastOp, mount>>
hocVars == <<factory, made, Combined, element, lastCall>>
vars    == <<mounted, self, out, renders, lastOp, mount,
             factory, made, Combined, element, lastCall>>

-----------------------------------------------------------------------------
(* JavaScript values.  Every value is a record of one shape: t is its type  *)
(* tag, s a string (a string's text, a function's name), n a number (a      *)
(* number's value, a closure's identity) and o an object's own properties.  *)

EmptyObject == [k \in {} |-> 0]

Undefined == [t |-> "undefined", s |-> "", n |-> 0, o |-> EmptyObject]
Null      == [t |-> "null",      s |-> "", n |-> 0, o |-> EmptyObject]
NaN       == [t |-> "number",    s |-> "NaN", n |-> 0, o |-> EmptyObject]
Str(s)    == [t |-> "string",    s |-> s,  n |-> 0, o |-> EmptyObject]
Num(n)    == [t |-> "number",    s |-> "", n |-> n, o |-> EmptyObject]
Fn(name, id) == [t |-> "function", s |-> name, n |-> id, o |-> EmptyObject]
Obj(props)   == [t |-> "object", s |-> "", n |-> 0, o |-> props]

\* !v
Falsy(v) ==
    \/ v.t \in {"undefined", "null"}
    \/ v.t = "string" /\ v.s = ""
    \/ v.t = "number" /\ (v.s = "NaN" \/ v.n = 0)

\* a || b
Or(a, b) == IF Falsy(a) THEN b ELSE a

\* obj[k] of an object's own properties
Get(obj, k) == IF k \in DOMAIN obj THEN obj[k] ELSE Undefined

\* { ...a, ...b }: the later source wins
Spread(a, b) == b @@ a

\* the rest of a destructuring: obj without the names taken out
Rest(obj, taken) == [k \in (DOMAIN obj) \ taken |-> obj[k]]

\* The own enumerable properties of Object(v), as a spread or a merge sees
\* them: those of v when v is an object, none when v is undefined or null
ToObject(v) == IF v.t = "object" THEN v.o ELSE EmptyObject

-----------------------------------------------------------------------------
(* The container types: StateProvider and the classes of the README that    *)
(* extend it.                                                              *)

Types == {"StateProvider", "SimpleState", "Reducer"}

\* get initialState()
initialState(type) ==
    IF type = "SimpleState" THEN ("foo" :> Str("bar")) ELSE EmptyObject

\* get handlers(): every evaluation makes new closures; id tells them apart
handlers(type, id) ==
    CASE type = "SimpleState" -> ("set" :> Fn("set", id))
      [] type = "Reducer"     -> ("action" :> Fn("action", id))
      [] OTHER                -> EmptyObject

\* defaultRender
defaultRender == Fn("defaultRender", 0)

\* A constructor in which the getter wins: this.initialState || props.initialState
constructor_getterFirst(type, props, context) ==
    [ type        |-> type,
      props       |-> props,
      context     |-> context,
      state       |-> Or(Obj(initialState(type)), Get(props, "initialState")).o,
      _handlers   |-> handlers(type, 1),
      getterCalls |-> 1 ]

\* A constructor that takes props.initialState only when it has a key
constructor_nonEmpty(type, props, context) ==
    [ type        |-> type,
      props       |-> props,
      context     |-> context,
      state       |-> IF DOMAIN Get(props, "initialState").o # {}
                      THEN Get(props, "initialState").o
                      ELSE initialState(type),
      _handlers   |-> handlers(type, 1),
      getterCalls |-> 1 ]

\* constructor(props)
constructor(type, props, context) ==
    [ type        |-> type,
      props       |-> props,
      context     |-> context,
      state       |-> Or(Get(props, "initialState"), Obj(initialState(type))).o,
      _handlers   |-> handlers(type, 1),
      getterCalls |-> 1 ]

\* What a call f(a1, a2) returns.  defaultRender returns null; what a caller's
\* render function returns is its own business: an element that names it.
Apply(f, a1, a2) ==
    IF f = defaultRender THEN Null
    ELSE [t |-> "element", s |-> f.s, n |-> 0, o |-> EmptyObject]

ReservedProps == {"children", "render", "initialState"}

\* const { children, render: renderProp, initialState, ...otherProps } = this.props
otherProps(this) == Rest(this.props, ReservedProps)

\* renderProp || children || this.defaultRender
renderer_renderFirst(this) ==
    Or(Or(Get(this.props, "render"), Get(this.props, "children")), defaultRender)

\* children || renderProp || this.defaultRender
renderer(this) ==
    Or(Or(Get(this.props, "children"), Get(this.props, "render")), defaultRender)

\* { ...this.props, ...this.state, ...this._handlers }: nothing taken out
mergedProps_allProps(this) ==
    Spread(Spread(this.props, this.state), this._handlers)

\* { ...otherProps, ...this.state, ...this.handlers }: the getter, evaluated again
mergedProps_getter(this) ==
    Spread(Spread(otherProps(this), this.state),
           handlers(this.type, this.getterCalls + 1))

\* { ...otherProps, ...this.state, ...this._handlers }
mergedProps(this) ==
    Spread(Spread(otherProps(this), this.state), this._handlers)

\* A render() that takes the state from this.props.initialState again
render_reinit(this) ==
    LET again == [this EXCEPT
                    !.state = Or(Get(this.props, "initialState"), Obj(this.state)).o]
    IN  [ this   |-> again,
          calls  |-> << [fn |-> renderer(again), a1 |-> mergedProps(again),
                         a2 |-> again.context] >>,
          result |-> Apply(renderer(again), mergedProps(again), again.context) ]

\* render(): the instance it leaves, the calls it makes and what it returns
render(this) ==
    [ this   |-> this,
      calls  |-> << [fn |-> renderer(this), a1 |-> mergedProps(this),
                     a2 |-> this.context] >>,
      result |-> Apply(renderer(this), mergedProps(this), this.context) ]

\* React's this.setState(partial): null and undefined change nothing, an
\* updater function is called with the previous state, and the partial state
\* is merged into the state, Object.assign({}, prevState, partialState)
setState(this, partial) ==
    [this EXCEPT !.state = Spread(this.state, ToObject(partial))]

-----------------------------------------------------------------------------
(* The handlers of the README's classes.                                   *)

\* SimpleState: set: (key, value) => this.setState({ [key]: value })
SimpleState_set(this, key, value) == setState(this, Obj(key :> value))

\* bar + 1, bar - 1 of the Reducer's updaters (bar is a number or undefined)
Plus(v, d) == IF v.t = "number" /\ v.s = "" THEN Num(v.n + d) ELSE NaN

\* Reducer: the members of the object literal `reducer`, and the member every
\* object literal inherits from Object.prototype that the model looks at:
\* reducer["constructor"] is the function Object
ReducerOwn == {"foo:update", "bar:inc", "bar:dec"}
ReducerInherited == {"constructor"}

\* reducer[type]
reducer(type) ==
    IF type \in ReducerOwn \cup ReducerInherited THEN Fn(type, 0) ELSE Undefined

\* reducer[type](payload), applied to the state where it is an updater:
\*   "foo:update": ({ foo }) => ({ foo: foo })
\*   "bar:inc":    () => ({ bar }) => ({ bar: bar + 1 })
\*   "bar:dec":    () => ({ bar }) => ({ bar: bar - 1 })
\*   "constructor": Object(payload)
reduce(type, payload, state) ==
    CASE type = "foo:update" -> Obj("foo" :> Get(ToObject(payload), "foo"))
      [] type = "bar:inc"    -> Obj("bar" :> Plus(Get(state, "bar"), 1))
      [] type = "bar:dec"    -> Obj("bar" :> Plus(Get(state, "bar"), -1))
      [] type = "constructor" -> Obj(ToObject(payload))
      [] OTHER -> Undefined

\* "foo:update" destructures its payload: undefined and null throw
Throws(type, payload) ==
    type = "foo:update" /\ payload.t \in {"undefined", "null"}

\* Reducer: action: (type, payload) => {
\*   if (!reducer[type]) return this.setState({});
\*   this.setState(reducer[type](payload)); }
Reducer_action(this, type, payload) ==
    IF Falsy(reducer(type)) THEN setState(this, Obj(EmptyObject))
    ELSE IF Throws(type, payload) THEN this
    ELSE setState(this, reduce(type, payload, this.state))

-----------------------------------------------------------------------------
(* withRender.  A call's arguments are a sequence: an argument left out is  *)
(* not in it and reads as undefined.                                       *)

Arg(args, i) == IF i <= Len(args) THEN args[i] ELSE Undefined

\* What withRender returns: a bound function (kind "factory", with the
\* arguments bind fixed), the component Combined (kind "component", a closure
\* over Container and Presenter), or nothing because it threw
NoResult == [kind |-> "none", bound |-> <<>>, Container |-> Undefined,
             Presenter |-> Undefined, displayName |-> ""]
BoundFunction(bound) == [NoResult EXCEPT !.kind = "factory", !.bound = bound]
Component(Container, Presenter, displayName) ==
    [NoResult EXCEPT !.kind = "component", !.Container = Container,
                     !.Presenter = Presenter, !.displayName = displayName]
Thrown == [NoResult EXCEPT !.kind = "throws"]

\* A withRender that binds the wrong argument: withRender.bind(undefined, Presenter)
withRender_bindPresenter(args) ==
    LET Container == Arg(args, 1)
        Presenter == Arg(args, 2)
    IN  IF Falsy(Presenter) THEN BoundFunction(<<Presenter>>)
        ELSE Component(Container, Presenter,
                       Container.s \o "(" \o Presenter.s \o ")")

\* A withRender that counts its arguments: if (arguments.length < 2) return ...;
\* with two arguments, Presenter.name of null or undefined throws
withRender_byCount(args) ==
    LET Container == Arg(args, 1)
        Presenter == Arg(args, 2)
    IN  IF Len(args) < 2 THEN BoundFunction(<<Container>>)
        ELSE IF Presenter.t \in {"undefined", "null"} THEN Thrown
        ELSE Component(Container, Presenter,
                       Container.s \o "(" \o Presenter.s \o ")")

\* function withRender(Container, Presenter)
withRender(args) ==
    LET Container == Arg(args, 1)
        Presenter == Arg(args, 2)
    IN  IF Falsy(Presenter) THEN BoundFunction(<<Container>>)
        ELSE Component(Container, Presenter,
                       Container.s \o "(" \o Presenter.s \o ")")

\* Calling what withRender.bind(undefined, ...bound) returned
CallBound(f, args) == withRender(f.bound \o args)

\* Combined = props => <Container render={Presenter} {...props} />
CombinedElement(c, props) ==
    [ type  |-> c.Container,
      props |-> Spread("render" :> c.Presenter, props) ]

NoElement == [type |-> Undefined, props |-> EmptyObject]

-----------------------------------------------------------------------------
(* The inputs of the model.                                                *)

MaxRenders == 3     \* render() calls of one instance
MaxBar == 1         \* the Reducer's counter stays within -MaxBar .. MaxBar

Kid      == Fn("Kid", 0)
Input    == Fn("Input", 0)
BigInput == Fn("BigInput", 0)

\* each prop is given or left out
ChildrenChoices == {EmptyObject, "children" :> Kid}
RenderChoices   == {EmptyObject, "render" :> Input}
InitialStateChoices ==
    { EmptyObject,
      "initialState" :> Null,
      "initialState" :> Obj(EmptyObject),
      "initialState" :> Obj("foo" :> Str("baz")),
      "initialState" :> Obj(("foo" :> Str("")) @@ ("bar" :> Num(0))) }
OtherChoices ==
    { EmptyObject,
      "other" :> Num(1),
      ("foo" :> Str("prop")) @@ ("set" :> Str("prop")) @@ ("action" :> Str("prop")) }

PropsChoices ==
    { c @@ r @@ i @@ o : c \in ChildrenChoices, r \in RenderChoices,
                         i \in InitialStateChoices, o \in OtherChoices }

Contexts == {"ctxA", "ctxB"}

SetKeys   == {"foo", "set"}
SetValues == {Str("x")}

ActionTypes == ReducerOwn \cup ReducerInherited \cup {"nope"}
Payloads    == {Undefined, Obj(EmptyObject), Obj("foo" :> Str("x"))}

NoInstance ==
    [ type |-> "", props |-> EmptyObject, context |-> "", state |-> EmptyObject,
      _handlers |-> EmptyObject, getterCalls |-> 0 ]

\* What the model remembers of the instance the constructor returned
Snapshot(this) ==
    [ state |-> this.state, _handlers |-> this._handlers,
      getterCalls |-> this.getterCalls,
      initialState |-> Get(this.props, "initialState") ]

NoOutput == [ this |-> NoInstance, calls |-> <<>>, result |-> Undefined ]

-----------------------------------------------------------------------------
(* Spec: one StateProvider instance.                                       *)

\* React mounts <Type {...props} />: the constructor, then the first render()
Mount(type, props, context) ==
    /\ ~mounted
    /\ mounted' = TRUE
    /\ mount' = Snapshot(constructor(type, props, context))
    /\ out' = render(constructor(type, props, context))
    /\ self' = out'.this
    /\ renders' = 1
    /\ lastOp' = "mount"
    /\ UNCHANGED hocVars

\* The parent renders the element again with other props: React sets
\* this.props and calls render(); the constructor does not run again
ReceiveProps(props) ==
    /\ mounted
    /\ renders < MaxRenders
    /\ props # self.props
    /\ out' = render([self EXCEPT !.props = props])
    /\ self' = out'.this
    /\ renders' = renders + 1
    /\ lastOp' = "props"
    /\ UNCHANGED <<mounted, mount>>
    /\ UNCHANGED hocVars

\* React calls render() again with nothing changed
Rerender ==
    /\ mounted
    /\ renders < MaxRenders
    /\ out' = render(self)
    /\ self' = out'.this
    /\ renders' = renders + 1
    /\ lastOp' = "render"
    /\ UNCHANGED <<mounted, mount>>
    /\ UNCHANGED hocVars

\* The presenter calls the handler `set` it was given; React renders again
CallSet(key, value) ==
    /\ mounted
    /\ renders < MaxRenders
    /\ self.type = "SimpleState"
    /\ out' = render(SimpleState_set(self, key, value))
    /\ self' = out'.this
    /\ renders' = renders + 1
    /\ lastOp' = "set"
    /\ UNCHANGED <<mounted, mount>>
    /\ UNCHANGED hocVars

\* The presenter calls the handler `action` it was given; React renders again
CallAction(type, payload) ==
    /\ mounted
    /\ renders < MaxRenders
    /\ self.type = "Reducer"
    /\ LET bar == Get(self.state, "bar")
       IN  bar.t = "number" /\ bar.s = "" =>
               /\ type = "bar:inc" => bar.n < MaxBar
               /\ type = "bar:dec" => bar.n > -MaxBar
    /\ out' = render(Reducer_action(self, type, payload))
    /\ self' = out'.this
    /\ renders' = renders + 1
    /\ lastOp' = IF Falsy(reducer(type)) THEN "action:unknown"
                 ELSE IF type \in ReducerOwn THEN "action:own"
                 ELSE "action:inherited"
    /\ UNCHANGED <<mounted, mount>>
    /\ UNCHANGED hocVars

\* React unmounts the instance
Unmount ==
    /\ mounted
    /\ mounted' = FALSE
    /\ self' = NoInstance
    /\ mount' = Snapshot(NoInstance)
    /\ out' = NoOutput
    /\ renders' = 0
    /\ lastOp' = "unmount"
    /\ UNCHANGED hocVars

Init ==
    /\ mounted = FALSE
    /\ self = NoInstance
    /\ mount = Snapshot(NoInstance)
    /\ out = NoOutput
    /\ renders = 0
    /\ lastOp = "init"
    /\ factory = NoResult
    /\ made = [Container |-> Undefined, uses |-> {}]
    /\ Combined = NoResult
    /\ element = NoElement
    /\ lastCall = [fn |-> "none", args |-> <<>>, result |-> NoResult]

Next ==
    \/ \E type \in Types, props \in PropsChoices, context \in Contexts :
           Mount(type, props, context)
    \/ \E props \in PropsChoices : ReceiveProps(props)
    \/ Rerender
    \/ \E key \in SetKeys, value \in SetValues : CallSet(key, value)
    \/ \E type \in ActionTypes, payload \in Payloads : CallAction(type, payload)
    \/ Unmount

Spec == Init /\ [][Next]_vars

-----------------------------------------------------------------------------
(* Properties of Spec.                                                     *)

\* The first argument of the only call the last render() made
Payload(o) == o.calls[1].a1

\* C1: every render() passes its target, as first argument, the merge of the
\* props other than children, render and initialState, of the state and of the
\* handlers; on a key in several of them the handler wins over the state and
\* the state over the prop; a render() after which nothing changed passes an
\* equal payload again.
C1_Passthrough(this) == (DOMAIN this.props) \ {"children", "render", "initialState"}
C1_PayloadIsMerge(this, payload) ==
    /\ DOMAIN payload =
           C1_Passthrough(this) \cup DOMAIN this.state \cup DOMAIN this._handlers
    /\ \A k \in DOMAIN payload :
           payload[k] = IF k \in DOMAIN this._handlers THEN this._handlers[k]
                        ELSE IF k \in DOMAIN this.state THEN this.state[k]
                        ELSE this.props[k]
C3_StateAfterConstruction ==
    mounted =>
        /\ mount.initialState.t = "object" => mount.state = mount.initialState.o
        /\ mount.initialState = Undefined =>
               mount.state = IF self.type = "SimpleState"
                             THEN [k \in {"foo"} |-> Str("bar")]
                             ELSE EmptyObject
        /\ lastOp = "mount" => self.state = mount.state

\* C3 witness: the README's SimpleState (D = {foo: "bar"}) mounted with
\* initialState {foo: "baz"}
C3_Witness ==
    /\ mounted /\ lastOp = "mount" /\ self.type = "SimpleState"
    /\ mount.initialState = Obj("foo" :> Str("baz"))
    /\ Get(self.state, "foo") = Str("baz")

\* C4: the handlers getter is evaluated once, by the constructor; every
\* render() of the instance passes the very handlers the constructor stored.
C4_HandlersStable ==
    mounted =>
        /\ self.getterCalls = 1
        /\ self._handlers = mount._handlers
        /\ \A k \in DOMAIN mount._handlers : Payload(out)[k] = mount._handlers[k]

\* C4 witness: an instance with a handler, rendered three times, the last
\* time after its state or props changed
C4_Witness ==
    /\ mounted /\ renders >= 3 /\ lastOp \in {"props", "set", "action:own"}
    /\ DOMAIN self._handlers # {}

\* C5: a handler's setState(partial) merges partial into the state: the keys
\* of partial take their new values, every other key keeps its value; the
\* Reducer's action(type, payload) with a type that is none of the reducer's
\* leaves the state as it was.
C5_SetStateMerges ==
    [][ (mounted /\ mounted') =>
          /\ lastOp' = "set" =>
                \E key \in SetKeys, value \in SetValues :
                    self'.state = [k \in DOMAIN self.state \cup {key} |->
                                      IF k = key THEN value ELSE self.state[k]]
          /\ lastOp' = "action:own" =>
                \E key \in {"foo", "bar"} :
                    /\ DOMAIN self'.state \subseteq DOMAIN self.state \cup {key}
                    /\ \A k \in DOMAIN self.state \ {key} :
                           k \in DOMAIN self'.state /\ self'.state[k] = self.state[k]
          /\ lastOp' \in {"action:unknown", "action:inherited"} =>
                self'.state = self.state ]_vars

\* C5, the part that holds: as C5_SetStateMerges, for the types that are no
\* member of reducer at all, its own or inherited
C5_OwnAndUnknown ==
    [][ (mounted /\ mounted') =>
          /\ lastOp' = "set" =>
                \E key \in SetKeys, value \in SetValues :
                    self'.state = [k \in DOMAIN self.state \cup {key} |->
                                      IF k = key THEN value ELSE self.state[k]]
          /\ lastOp' = "action:own" =>
                \E key \in {"foo", "bar"} :
                    /\ DOMAIN self'.state \subseteq DOMAIN self.state \cup {key}
                    /\ \A k \in DOMAIN self.state \ {key} :
                           k \in DOMAIN self'.state /\ self'.state[k] = self.state[k]
          /\ lastOp' = "action:unknown" => self'.state = self.state ]_vars

\* C6: render() calls one target, once, with (mergedProps, context): children
\* if supplied, else the render prop if supplied, else defaultRender, which
\* returns null.
C6_RenderTarget ==
    mounted =>
        /\ Len(out.calls) = 1
        /\ out.calls[1].fn =
               IF "children" \in DOMAIN self.props THEN self.props["children"]
               ELSE IF "render" \in DOMAIN self.props THEN self.props["render"]
               ELSE defaultRender
        /\ out.calls[1].a1 = mergedProps(self)
        /\ out.calls[1].a2 = self.context
        /\ {"children", "render"} \cap DOMAIN self.props = {} => out.result = Null
        /\ {"children", "render"} \cap DOMAIN self.props # {} => out.result # Null

\* C6 witness: both children and render are supplied
C6_Witness ==
    /\ mounted
    /\ {"children", "render"} \subseteq DOMAIN self.props
    /\ out.calls[1].fn = Kid

\* C7: the initialState prop is read by the constructor only: a prop update
\* or a re-render leaves the state as it is, whatever initialState it brings.
C7_InitialStateOnce ==
    [][ (mounted /\ mounted' /\ lastOp' \in {"props", "render"}) =>
            self'.state = self.state ]_vars

\* C7 witness: after a prop update that brought an initialState other than
\* the constructor's, the state is not that initialState
C7_Witness ==
    /\ mounted /\ lastOp = "props"
    /\ Get(self.props, "initialState").t = "object"
    /\ Get(self.props, "initialState") # mount.initialState
    /\ self.state # Get(self.props, "initialState").o

\* C9, as claimed: the constructor takes props.initialState only when it is
\* present and not empty; absent or empty, the state is the getter's value.
C9_NonEmptyOnly ==
    mounted =>
        /\ (mount.initialState.t = "object" /\ DOMAIN mount.initialState.o # {}) =>
               mount.state = mount.initialState.o
        /\ (mount.initialState = Undefined \/ mount.initialState = Obj(EmptyObject)) =>
               mount.state = initialState(self.type)

\* C9, amended: the constructor takes props.initialState whenever it is truthy,
\* an empty mapping included; absent or falsy (null), the state is the
\* getter's value.
C9_TruthyOnly ==
    mounted =>
        /\ ~Falsy(mount.initialState) => mount.state = mount.initialState.o
        /\ mount.initialState \in {Undefined, Null} =>
               mount.state = initialState(self.type)

\* C9 witness: a SimpleState (default {foo: "bar"}) constructed with
\* initialState {}
C9_Witness ==
    /\ mounted /\ lastOp = "mount" /\ self.type = "SimpleState"
    /\ mount.initialState = Obj(EmptyObject)
    /\ self.state = EmptyObject

-----------------------------------------------------------------------------
(* SpecHOC: calls of withRender and of what it returns.                    *)

Containers == {Fn(type, 0) : type \in Types}
Presenters == {Input, BigInput}

\* the presenter argument: left out, or given as undefined, null or a function
PresenterArgs == {<<>>, <<Undefined>>, <<Null>>} \cup {<<P>> : P \in Presenters}

InputPropsChoices ==
    { EmptyObject,
      "initialState" :> Obj("foo" :> Str("baz")),
      "other" :> Num(1),
      "children" :> Kid,
      "render" :> BigInput,
      ("render" :> Input) @@ ("other" :> Num(1)) }

\* Keep the result of a call of withRender, made directly or through a factory
Keep(fn, args, result) ==
    /\ lastCall' = [fn |-> fn, args |-> args, result |-> result]
    /\ factory' = IF result.kind = "factory" THEN result ELSE factory
    /\ Combined' = IF result.kind = "component" THEN result ELSE Combined
    /\ element' = IF result.kind = "component" THEN NoElement ELSE element

\* withRender(Container) or withRender(Container, Presenter)
CallWithRender(Container, rest) ==
    /\ Keep("withRender", <<Container>> \o rest, withRender(<<Container>> \o rest))
    /\ made' = IF withRender(<<Container>> \o rest).kind = "factory"
               THEN [Container |-> Container, uses |-> {}]
               ELSE made
    /\ UNCHANGED spVars

\* factory(Presenter), factory() : a call of the bound function
CallFactory(rest) ==
    /\ factory.kind = "factory"
    /\ Keep("factory", rest, CallBound(factory, rest))
    /\ made' = IF rest = <<>> THEN made
               ELSE [made EXCEPT !.uses = @ \cup
                        {[Presenter |-> rest[1], result |-> CallBound(factory, rest)]}]
    /\ UNCHANGED spVars

\* Combined(props): React renders <Combined {...props} />
CallCombined(props) ==
    /\ Combined.kind = "component"
    /\ element' = CombinedElement(Combined, props)
    /\ lastCall' = [fn |-> "Combined", args |-> <<Obj(props)>>, result |-> NoResult]
    /\ UNCHANGED <<factory, made, Combined>>
    /\ UNCHANGED spVars

NextHOC ==
    \/ \E Container \in Containers, rest \in PresenterArgs :
           CallWithRender(Container, rest)
    \/ \E rest \in PresenterArgs : CallFactory(rest)
    \/ \E props \in InputPropsChoices : CallCombined(props)

SpecHOC == Init /\ [][NextHOC]_vars

-----------------------------------------------------------------------------
(* Properties of SpecHOC.                                                  *)

\* C2, as claimed: the element Combined(inputProps) returns is of type
\* Container, its render prop is the Presenter whatever inputProps.render is,
\* and every other prop of inputProps is passed through.
C2_PresenterWins ==
    lastCall.fn = "Combined" =>
        LET inputProps == lastCall.args[1].o
        IN  /\ element.type = Combined.Container
            /\ DOMAIN element.props = DOMAIN inputProps \cup {"render"}
            /\ element.props["render"] = Combined.Presenter
            /\ \A k \in DOMAIN inputProps \ {"render"} :
                   element.props[k] = inputProps[k]

\* C8: calling the factory withRender(C) returned with a presenter P gives
\* what withRender(C, P) gives, the same component for every inputProps; the
\* factory stays bound to C however often it is used.
C8_Currying ==
    /\ factory.kind = "factory" => factory.bound = <<made.Container>>
    /\ \A u \in made.uses :
           u.Presenter.t = "function" =>
               /\ u.result.kind = "component"
               /\ u.result.Container = made.Container
               /\ u.result.Presenter = u.Presenter
               /\ u.result = withRender(<<made.Container, u.Presenter>>)
               /\ \A props \in InputPropsChoices :
                      CombinedElement(u.result, props) =
                      CombinedElement(withRender(<<made.Container, u.Presenter>>),
                                      props)

\* C8 witness: one factory used with two presenters, and the component it
\* made last rendered
C8_Witness ==
    /\ \E u, v \in made.uses :
           /\ u.Presenter = Input /\ v.Presenter = BigInput
           /\ u.result.kind = "component" /\ v.result.kind = "component"
           /\ Combined \in {u.result, v.result}
    /\ lastCall.fn = "Combined"
    /\ element.type = made.Container

\* C10, as claimed: withRender goes by the number of its arguments: without a
\* second argument it returns a factory, with one, whatever its value, it
\* composes.
C10_ByArgumentCount ==
    lastCall.fn = "withRender" =>
        /\ Len(lastCall.args) = 1 => lastCall.result.kind = "factory"
        /\ Len(lastCall.args) = 2 => lastCall.result.kind = "component"

\* C10, amended: withRender goes by the truthiness of its second argument:
\* left out, undefined or null, it returns a factory bound to the container;
\* a function, it composes.
C10_ByTruthiness ==
    lastCall.fn = "withRender" =>
        /\ (Len(lastCall.args) = 1 \/ lastCall.args[2] \in {Undefined, Null}) =>
               lastCall.result = BoundFunction(<<lastCall.args[1]>>)
        /\ (Len(lastCall.args) = 2 /\ lastCall.args[2].t = "function") =>
               /\ lastCall.result.kind = "component"
               /\ lastCall.result.Container = lastCall.args[1]
               /\ lastCall.result.Presenter = lastCall.args[2]

\* C10 witness: withRender(Container, null) returned a factory
C10_Witness ==
    /\ lastCall.fn = "withRender"
    /\ Len(lastCall.args) = 2 /\ lastCall.args[2] = Null
    /\ lastCall.result.kind = "factory"

====
